---- MODULE Spec2Model ----
(***************************************************************************)
(* A model of the Kaggle API client of src/src/client.rs: the transport    *)
(* (request), the competition submission workflow (competition_submit) *)
(* and the multi-file dataset upload (upload_files).                     *)
(*                                                                         *)
(* Strings whose contents the code inspects (URLs, header values, path     *)
(* segments) are sequences of one-character strings; opaque strings (ids,  *)
(* tokens, messages) are TLA+ strings.                                     *)
(***************************************************************************)
EXTENDS Integers, Sequences, FiniteSets, TLC

VARIABLES
  now,          \* the wall clock (seconds) while the operation runs
  \* ---- Transport: one call of request ----
  rq_pc,        \* "idle" | "ready" | "awaiting" | "done"
  rq_req,       \* the request handed to request
  rq_sends,     \* how many times the request was put on the wire
  rq_resp,      \* the response received (NoResponse before)
  rq_out,       \* what request produced: Ok(resp) | Err(e) | Panic
  \* ---- Submission orchestrator: one call of competition_submit ----
  pc,           \* position inside competition_submit
  file,         \* the local file entry named by the caller
  competition,  \* caller's competition id
  message,      \* caller's message
  sent,         \* requests put on the wire, in order
  replies,      \* replies[i]: what came back for sent[i]
  url_result,   \* decoded URL-negotiation response
  upload_result,\* the upload result the token is taken from
  result,       \* what competition_submit returned
  \* ---- Directory upload: one call of upload_files ----
  uf_pc,        \* "idle" | "walking" | "negotiating" | "done"
  folder,       \* the children of folder, in directory order
  resources,    \* caller's resource list
  walk,         \* the entries WalkDir still has to yield
  tmp,          \* whether the temporary directory was created
  negotiations, \* negotiation requests sent, with the token returned
  uploads,      \* the Vec<DatasetUploadFile> built so far
  uf_result,    \* what upload_files returned
  \* ---- Construction: one KaggleApiClientBuilder and its client ----
  bd_pc,        \* "idle" | "configuring" | "built" | "failed"
  builder,      \* the fields of the KaggleApiClientBuilder
  bd_env,       \* the Authentication the environment resolves to
  bd_out,       \* what build returned: the KaggleApiClient or the error
  issued,       \* the requests the built client put on the wire
  \* ---- Downloads: two download operations of one client ----
  dl_ops,       \* per operation: its call, position, output, response
  fs,           \* the files of the local filesystem, by path
  \* ---- Streaming: one stream made by into_bytes_stream ----
  st_pc,        \* "idle" | "polling" | "ended" | "failed"
  st_file,      \* the bytes of the file behind the reader
  st_pos,       \* how many of them the reader has given out
  st_framed,    \* the FramedRead: buffer, eof, is_readable
  st_items,     \* the items the stream emitted, in order
  st_failed,    \* whether a read of the reader failed
  \* ---- Listing: one call of competitions_list ----
  cl_pc,        \* "idle" | "start" | "awaiting" | "done"
  cl_query,     \* the CompetitionsList of the caller
  cl_req,       \* the request built: its method and URL
  cl_result     \* what competitions_list returned

rq_vars ==
  << rq_pc, rq_req, rq_sends, rq_resp, rq_out >>

cs_vars ==
  << pc, file, competition, message, sent, replies, url_result,
     upload_result, result >>

uf_vars ==
  << uf_pc, folder, resources, walk, tmp, negotiations, uploads, uf_result >>

bd_vars ==
  << bd_pc, builder, bd_env, bd_out, issued >>

dl_vars ==
  << dl_ops, fs >>

st_vars ==
  << st_pc, st_file, st_pos, st_framed, st_items, st_failed >>

cl_vars ==
  << cl_pc, cl_query, cl_req, cl_result >>

vars ==
  << now, rq_vars, cs_vars, uf_vars, bd_vars, st_vars, dl_vars, cl_vars >>

(***************************************************************************)
(* Bounds of the model.                                                    *)
(***************************************************************************)
\* longest createUrl, counted in '/'-separated pieces after the scheme
MaxSegs ==
  3

\* latest clock value / modification time
MaxTime ==
  1

\* most children of the uploaded folder
MaxChildren ==
  2

\* most requests followed for one built client
MaxRequests ==
  2

\* longest file streamed, in bytes (and so the largest single read)
MaxBytes ==
  3

(***************************************************************************)
(* Text helpers: the pieces of std the code relies on.                     *)
(***************************************************************************)
Digits ==
  <<"0", "1", "2", "3", "4", "5", "6", "7", "8", "9">>

IsDigit(c) ==
  \E d \in 1..10 : Digits[d] = c

DigitValue(c) ==
  (CHOOSE d \in 1..10 : Digits[d] = c) - 1

RECURSIVE DecimalValue(_)
DecimalValue(s) ==
  IF s = <<>> THEN 0
  ELSE 10 * DecimalValue(SubSeq(s, 1, Len(s) - 1)) + DigitValue(s[Len(s)])

\* str::parse::<u64>() / str::parse::<usize>(): an optional '+', then one or
\* more decimal digits; anything else is a ParseIntError.
parse(s) ==
  LET body == IF s # <<>> /\ s[1] = "+" THEN Tail(s) ELSE s
  IN  IF body = <<>> \/ \E i \in 1..Len(body) : ~IsDigit(body[i])
      THEN [ok |-> FALSE, val |-> 0]
      ELSE [ok |-> TRUE, val |-> DecimalValue(body)]

\* str::split('/'): the pieces between the separators, empty pieces kept;
\* the empty string splits into one empty piece.
RECURSIVE split(_, _)
split(s, sep) ==
  IF \A i \in 1..Len(s) : s[i] # sep
  THEN <<s>>
  ELSE LET i == CHOOSE k \in 1..Len(s) :
                  s[k] = sep /\ \A j \in 1..(k - 1) : s[j] # sep
       IN  <<SubSeq(s, 1, i - 1)>> \o split(SubSeq(s, i + 1, Len(s)), sep)

\* Iterator::rev().collect()
rev(xs) ==
  [i \in 1..Len(xs) |-> xs[Len(xs) + 1 - i]]

RECURSIVE join(_, _)
join(segs, sep) ==
  IF segs = <<>> THEN <<>>
  ELSE IF Len(segs) = 1 THEN segs[1]
  ELSE segs[1] \o <<sep>> \o join(Tail(segs), sep)

(***************************************************************************)
(* ApiError and the other errors the operations end with.                  *)
(***************************************************************************)
NoError ==
  [type |-> "none", variant |-> "none", some |-> FALSE, secs |-> 0,
   code |-> 0, msg |-> ""]

Unauthorized ==
  [NoError EXCEPT !.type = "ApiError", !.variant = "Unauthorized"]

\* RateLimited(Option<usize>): opt is a parse result, .ok() of which is
\* Some(val) or None
RateLimited(opt) ==
  [NoError EXCEPT !.type = "ApiError", !.variant = "RateLimited",
                  !.some = opt.ok, !.secs = IF opt.ok THEN opt.val ELSE 0]

Other(status) ==
  [NoError EXCEPT !.type = "ApiError", !.variant = "Other", !.code = status]

\* any error that is not an ApiError: a failed I/O call, a failed decode, an
\* anyhow context message
Failure(type, msg) ==
  [NoError EXCEPT !.type = type, !.msg = msg]

(***************************************************************************)
(* Transport: KaggleApiClient::request                                     *)
(***************************************************************************)
UNAUTHORIZED ==
  401

TOO_MANY_REQUESTS ==
  429

Statuses ==
  {200, 201, 204, 301, 400, UNAUTHORIZED, 404, 418, TOO_MANY_REQUESTS, 500}

\* StatusCode::is_success
is_success(status) ==
  status >= 200 /\ status <= 299

\* A Retry-After header as the response carries it: absent, or a value that
\* is visible ASCII (to_str succeeds) with its text, or opaque bytes.
NoHeader ==
  [present |-> FALSE, ascii |-> FALSE, text |-> <<>>]

HeaderText(t) ==
  [present |-> TRUE, ascii |-> TRUE, text |-> t]

OpaqueHeader ==
  [present |-> TRUE, ascii |-> FALSE, text |-> <<>>]

RetryAfterValues ==
  { NoHeader, OpaqueHeader,
    HeaderText(<<"3", "0">>), HeaderText(<<"7">>), HeaderText(<<>>),
    HeaderText(<<"s", "o", "o", "n">>), HeaderText(<<"3", "s">>) }

NoResponse ==
  [status |-> 0, retry_after |-> NoHeader, body |-> "none"]

Ok(resp) ==
  [kind |-> "Ok", resp |-> resp, err |-> NoError]

Err(e) ==
  [kind |-> "Err", resp |-> NoResponse, err |-> e]

\* the thread unwinds: no value is returned
Panic ==
  [kind |-> "Panic", resp |-> NoResponse, err |-> NoError]

Pending ==
  [kind |-> "Pending", resp |-> NoResponse, err |-> NoError]

\* the classification of a received response (client.rs 332-347).
\* resp.headers()[RETRY_AFTER] indexes the header map: it panics when the
\* header is absent.
classify(resp) ==
  IF is_success(resp.status)
  THEN Ok(resp)
  ELSE IF resp.status = UNAUTHORIZED
       THEN Err(Unauthorized)
       ELSE IF resp.status = TOO_MANY_REQUESTS
            THEN IF ~resp.retry_after.present
                 THEN Panic
                 ELSE IF resp.retry_after.ascii
                      THEN Err(RateLimited(parse(resp.retry_after.text)))
                      ELSE Err(RateLimited([ok |-> FALSE, val |-> 0]))
            ELSE Err(Other(resp.status))

Requests ==
  [method : {"GET", "POST", "PUT"}, stream : BOOLEAN]

\* what req.send().await can bring back: a response, or a transport fault
\* (status 0: no response arrived)
TransportFault ==
  [status |-> 0, retry_after |-> NoHeader, body |-> "none"]

\* KaggleApiClient::request after the send: ? on the transport fault, then
\* the classification
request(wire) ==
  IF wire.status = 0
  THEN Err(Failure("Transport", "error sending request"))
  ELSE classify(wire)

RqResponses ==
  [status : Statuses, retry_after : RetryAfterValues, body : {"raw"}]

RqInit ==
  /\ rq_pc = "ready"
  /\ rq_req \in Requests
  /\ rq_sends = 0
  /\ rq_resp = NoResponse
  /\ rq_out = Pending

RqIdle ==
  /\ rq_pc = "idle"
  /\ rq_req = [method |-> "GET", stream |-> FALSE]
  /\ rq_sends = 0
  /\ rq_resp = NoResponse
  /\ rq_out = Pending

\* req.send(): the request goes on the wire
request_send ==
  /\ rq_pc = "ready"
  /\ rq_sends' = rq_sends + 1
  /\ rq_pc' = "awaiting"
  /\ UNCHANGED <<rq_req, rq_resp, rq_out>>

\* .await resumes: a transport fault or a response; request returns
request_return ==
  /\ rq_pc = "awaiting"
  /\ \E wire \in RqResponses \cup {TransportFault} :
       /\ rq_resp' = wire
       /\ rq_out' = request(wire)
  /\ rq_pc' = "done"
  /\ UNCHANGED <<rq_req, rq_sends>>

(***************************************************************************)
(* JSON bodies.  A body is modelled by what the code can look at: whether  *)
(* it is JSON at all, whether it is an object, and its isComplete,       *)
(* createUrl and token members (absent, of another JSON type, or a     *)
(* string); submit_result is the SubmitResult the body decodes to.       *)
(***************************************************************************)
Absent ==
  [kind |-> "absent", str |-> <<>>]

\* a member that is present and is not a string (a number)
NotAString ==
  [kind |-> "number", str |-> <<>>]

String(s) ==
  [kind |-> "string", str |-> s]

NotJson ==
  [json |-> FALSE, object |-> FALSE, isComplete |-> "absent",
   createUrl |-> Absent, token |-> Absent, submit_result |-> "none"]

\* valid JSON that is no object (an array)
JsonArray ==
  [NotJson EXCEPT !.json = TRUE]

JsonObject(isComplete, createUrl, token) ==
  [json |-> TRUE, object |-> TRUE, isComplete |-> isComplete,
   createUrl |-> createUrl, token |-> token, submit_result |-> "none"]

\* Value::as_object().get(key).and_then(Value::as_str)
get_str(body, key) ==
  LET member == IF key = "createUrl" THEN body.createUrl ELSE body.token
  IN  IF body.object /\ member.kind = "string"
      THEN [some |-> TRUE, str |-> member.str]
      ELSE [some |-> FALSE, str |-> <<>>]

\* Response::json::<T>(): serde's decode of the body into T
decode(body, T) ==
  CASE T = "Value" -> body.json
    [] T = "SubmitResult" -> body.json /\ body.submit_result # "none"
    [] T = "FileUploadInfo" ->
         body.json /\ body.object /\ body.token.kind = "string"

\* KaggleApiClient::request_json after the send
request_json(wire, T) ==
  LET r == request(wire)
  IN  IF r.kind # "Ok" THEN r
      ELSE IF decode(wire.body, T) THEN r
      ELSE Err(Failure("Decode", "error decoding response body"))

(***************************************************************************)
(* The inputs of competition_submit.                                       *)
(***************************************************************************)
SchemePrefix ==
  <<"h", ":", "/", "/">>

\* the pieces a createUrl is made of: a name, two numbers, the empty piece
\* (of a doubled or trailing '/')
UrlPieces ==
  { <<"a">>, <<"4", "2">>, <<"9", "9">>, <<>> }

PieceSeqs ==
  UNION { [1..n -> UrlPieces] : n \in 1..MaxSegs }

\* relative references p1/../pn and absolute URLs h://p1/../pn, where p1
\* is the host
Urls ==
  { join(ps, "/") : ps \in PieceSeqs }
    \cup { SchemePrefix \o join(ps, "/") : ps \in PieceSeqs }

\* Url::parse, as IntoUrl applies it: an absolute URL with a host
IsAbsoluteUrl(url) ==
  /\ Len(url) > Len(SchemePrefix)
  /\ SubSeq(url, 1, Len(SchemePrefix)) = SchemePrefix
  /\ url[Len(SchemePrefix) + 1] # "/"

Tok1 ==
  <<"t", "o", "k", "1">>

Tok2 ==
  <<"t", "o", "k", "2">>

NegotiationBodies ==
  {NotJson, JsonArray}
    \cup { JsonObject(ic, cu, tk) :
             ic \in {"absent", "null", "false", "true"},
             cu \in {Absent, NotAString} \cup { String(u) : u \in Urls },
             tk \in {Absent, NotAString, String(Tok1)} }

UploadBodies ==
  {NotJson, JsonArray}
    \cup { JsonObject("absent", Absent, tk) :
             tk \in {Absent, NotAString, String(Tok2)} }

FinalizeBodies ==
  {NotJson}
    \cup { [JsonObject("absent", Absent, Absent) EXCEPT !.submit_result = sr] :
             sr \in {"none", "sr1", "sr2"} }

\* what the wire can bring back for a request whose 2xx bodies are bodies
Wire(bodies) ==
  {[TransportFault EXCEPT !.body = NotJson]}
    \cup [status : {200}, retry_after : {NoHeader}, body : bodies]
    \cup [status : {UNAUTHORIZED, 418, 500}, retry_after : {NoHeader},
          body : {NotJson}]
    \cup [status : {TOO_MANY_REQUESTS}, retry_after : RetryAfterValues,
          body : {NotJson}]

\* a local filesystem entry: its name as Path::file_name()/to_str() see it,
\* its length and its modification time
Files ==
  [exists : {FALSE}, name_kind : {"ok"}, name : {"sub.csv"}, len : {0},
   mtime : {0}]
    \cup [exists : {TRUE}, name_kind : {"ok", "dotdot", "nonunicode"},
          name : {"sub.csv"}, len : {7}, mtime : 0..MaxTime]

Competitions ==
  {"titanic", "digits"}

Messages ==
  {"first try"}

(***************************************************************************)
(* KaggleApiClient::get_file_metadata                                      *)
(***************************************************************************)
\* (content_length, last_modified): the length, and SystemTime::elapsed() of
\* the modification time, which fails when that time is later than now
get_file_metadata(f, clock) ==
  IF ~f.exists
  THEN [ok |-> FALSE, err |-> Failure("Io", "NotFound"),
        content_length |-> 0, last_modified |-> 0]
  ELSE IF f.mtime > clock
       THEN [ok |-> FALSE, err |-> Failure("SystemTime", "later than now"),
             content_length |-> 0, last_modified |-> 0]
       ELSE [ok |-> TRUE, err |-> NoError,
             content_length |-> f.len, last_modified |-> clock - f.mtime]

(***************************************************************************)
(* Requests on the wire.                                                   *)
(***************************************************************************)
Req(endpoint, method) ==
  [endpoint |-> endpoint, method |-> method, id |-> "", guid |-> <<>>,
   content_length |-> 0, last_modified_secs |-> 0, url |-> <<>>,
   body |-> "", file_name |-> "", token |-> <<>>, message |-> ""]

\* POST /competitions/{id}/submissions/url/{content_length}/{secs}
competitions_submissions_url(id, content_length, last_modified, file_name) ==
  [Req("competitions/submissions/url", "POST") EXCEPT
     !.id = id, !.content_length = content_length,
     !.last_modified_secs = last_modified, !.file_name = file_name,
     !.body = "multipart(fileName)"]

\* POST /competitions/submissions/upload/{guid}/{content_length}/{secs}
competitions_submissions_upload(guid, content_length, last_modified) ==
  [Req("competitions/submissions/upload", "POST") EXCEPT
     !.guid = guid, !.content_length = content_length,
     !.last_modified_secs = last_modified,
     !.body = "multipart(file: stream)"]

\* PUT {url}, the body the file's byte stream
upload_complete(url) ==
  [Req("createUrl", "PUT") EXCEPT !.url = url, !.body = "stream"]

\* POST /competitions/submissions/submit/{id}
competitions_submissions_submit(id, blob_file_tokens, description) ==
  [Req("competitions/submissions/submit", "POST") EXCEPT
     !.id = id, !.token = blob_file_tokens, !.message = description,
     !.body = "multipart(blobFileTokens, submissionDescription)"]

(***************************************************************************)
(* KaggleApiClient::competition_submit                                     *)
(*                                                                         *)
(* The function runs from one suspension on the network to the next; each  *)
(* action below is one such stretch.  A stretch ends by putting the next   *)
(* request on the wire (Send) or by leaving the function (Return, Fail,    *)
(* Abort).                                                                 *)
(***************************************************************************)
NoResult ==
  [kind |-> "none", value |-> "none", err |-> NoError]

Send(next_pc, req) ==
  [pc |-> next_pc, reqs |-> <<req>>, result |-> NoResult]

Return(value) ==
  [pc |-> "done", reqs |-> <<>>,
   result |-> [kind |-> "Ok", value |-> value, err |-> NoError]]

Fail(e) ==
  [pc |-> "done", reqs |-> <<>>,
   result |-> [kind |-> "Err", value |-> "none", err |-> e]]

Abort ==
  [pc |-> "done", reqs |-> <<>>,
   result |-> [kind |-> "Panic", value |-> "none", err |-> NoError]]

\* how a failed request_json leaves the function: ? on its error, or the
\* unwinding of its panic
Propagate(r) ==
  IF r.kind = "Panic" THEN Abort ELSE Fail(r.err)

\* lines 614-626: the metadata, the file name, the negotiation request
submit_start(f, clock, id) ==
  LET meta == get_file_metadata(f, clock)
  IN  IF ~meta.ok THEN Fail(meta.err)
      ELSE IF f.name_kind = "dotdot"
           THEN Fail(Failure("Context", "File path terminates in .."))
           ELSE IF f.name_kind = "nonunicode"
                THEN Fail(Failure("Context", "File name is not valid unicode"))
                ELSE Send("negotiating",
                          competitions_submissions_url(
                            id, meta.content_length, meta.last_modified, f.name))

\* a variant that reads the flag instead of testing for the key
is_legacy_reads_flag(obj) ==
  obj.isComplete = "true"

\* line 633: obj.get("isComplete").is_some()
is_legacy(obj) ==
  obj.isComplete # "absent"

\* lines 635-652: the old submissions path.  tokio::fs::File::open runs
\* first inside competitions_submissions_upload.
legacy_path(obj, open_ok) ==
  LET url_list == get_str(obj, "createUrl")
  IN  IF ~url_list.some
      THEN Fail(Failure("Context", "Missing createUrl field"))
      ELSE LET parts == rev(split(url_list.str, "/"))
           IN  IF Len(parts) < 3
               THEN Fail(Failure("Context",
                                 "createUrl response with incomplete segments"))
               ELSE LET content_length == parse(parts[2])
                        secs == parse(parts[3])
                    IN  IF ~content_length.ok \/ ~secs.ok
                        THEN Fail(Failure("ParseInt", "invalid digit"))
                        ELSE IF ~open_ok
                             THEN Fail(Failure("Io", "open"))
                             ELSE Send("uploading_legacy",
                                       competitions_submissions_upload(
                                         parts[1], content_length.val, secs.val))

\* a variant that unwraps the createUrl lookup
direct_path_unwraps(obj, open_ok) ==
  LET url == get_str(obj, "createUrl")
  IN  IF ~url.some
      THEN Abort
      ELSE IF open_ok /\ IsAbsoluteUrl(url.str)
           THEN Send("uploading_direct", upload_complete(url.str))
           ELSE Fail(Failure("Io", "open"))

\* lines 654-661: the new path.  upload_complete opens the file, then builds
\* the PUT; a createUrl that is no absolute URL fails the send before
\* anything is on the wire.
direct_path(obj, open_ok) ==
  LET url == get_str(obj, "createUrl")
  IN  IF ~url.some
      THEN Fail(Failure("Context", "Missing createUrl in response"))
      ELSE IF ~open_ok
           THEN Fail(Failure("Io", "open"))
           ELSE IF ~IsAbsoluteUrl(url.str)
                THEN Fail(Failure("Builder", "relative URL without a base"))
                ELSE Send("uploading_direct", upload_complete(url.str))

\* lines 628-662, entered with the outcome of the negotiation request
after_negotiation(wire, open_ok) ==
  LET r == request_json(wire, "Value")
  IN  IF r.kind # "Ok" THEN Propagate(r)
      ELSE IF ~wire.body.object
           THEN Fail(Failure("Context", "Expected json response object"))
           ELSE IF is_legacy(wire.body)
                THEN legacy_path(wire.body, open_ok)
                ELSE direct_path(wire.body, open_ok)

\* a variant that defaults a missing token to the empty string
finalize_defaults_token(upload, id, description) ==
  Send("finalizing",
       competitions_submissions_submit(
         id, get_str(upload, "token").str, description))

\* lines 664-672: the token of the upload result, the finalize request
finalize(upload, id, description) ==
  LET token == get_str(upload, "token")
  IN  IF ~token.some
      THEN Fail(Failure("Context", "Missing upload token"))
      ELSE Send("finalizing",
                competitions_submissions_submit(id, token.str, description))

\* line 652: the response of the upload-by-guid call is the upload result
after_legacy_upload(wire, id, description) ==
  LET r == request_json(wire, "Value")
  IN  IF r.kind # "Ok" THEN Propagate(r)
      ELSE finalize(wire.body, id, description)

\* a variant that goes on to finalize whatever came back for the PUT
after_direct_upload_ignores_put(wire, negotiated, id, description) ==
  LET token == get_str(negotiated, "token")
  IN  IF ~token.some
      THEN Fail(Failure("Context", "Missing upload token"))
      ELSE Send("finalizing",
                competitions_submissions_submit(id, token.str, description))

\* lines 660-661: upload_complete decodes the PUT response as JSON and the
\* value is dropped; the negotiation response is the upload result
after_direct_upload(wire, negotiated, id, description) ==
  LET r == request_json(wire, "Value")
  IN  IF r.kind # "Ok" THEN Propagate(r)
      ELSE finalize(negotiated, id, description)

\* lines 670-672: the decoded SubmitResult is the value of the function
after_finalize(wire) ==
  LET r == request_json(wire, "SubmitResult")
  IN  IF r.kind # "Ok" THEN Propagate(r)
      ELSE Return(wire.body.submit_result)

CsInit ==
  /\ pc = "start"
  /\ file \in Files
  /\ competition \in Competitions
  /\ message \in Messages
  /\ sent = <<>>
  /\ replies = <<>>
  /\ url_result = NotJson
  /\ upload_result = NotJson
  /\ result = NoResult

CsIdle ==
  /\ pc = "idle"
  /\ file = [exists |-> FALSE, name_kind |-> "ok", name |-> "sub.csv",
             len |-> 0, mtime |-> 0]
  /\ competition = "titanic"
  /\ message = "first try"
  /\ sent = <<>>
  /\ replies = <<>>
  /\ url_result = NotJson
  /\ upload_result = NotJson
  /\ result = NoResult

\* the effect of one stretch on the position, the wire and the result
Take(step) ==
  /\ pc' = step.pc
  /\ sent' = sent \o step.reqs
  /\ result' = step.result

\* did the awaited request come back as a decoded 2xx
Decoded(wire, T) ==
  request_json(wire, T).kind = "Ok"

\* the record of what came back: the status (0: nothing), the body, and
\* whether request_json produced a value from them
Reply(wire, T) ==
  [status |-> wire.status, body |-> wire.body, decoded |-> Decoded(wire, T)]

cs_start ==
  /\ pc = "start"
  /\ Take(submit_start(file, now, competition))
  /\ UNCHANGED <<file, competition, message, replies, url_result,
                 upload_result>>

cs_negotiated ==
  /\ pc = "negotiating"
  /\ \E wire \in Wire(NegotiationBodies), open_ok \in BOOLEAN :
       /\ Take(after_negotiation(wire, open_ok))
       /\ replies' = Append(replies, Reply(wire, "Value"))
       /\ url_result' = IF Decoded(wire, "Value") THEN wire.body ELSE url_result
  /\ UNCHANGED <<file, competition, message, upload_result>>

cs_legacy_uploaded ==
  /\ pc = "uploading_legacy"
  /\ \E wire \in Wire(UploadBodies) :
       /\ Take(after_legacy_upload(wire, competition, message))
       /\ replies' = Append(replies, Reply(wire, "Value"))
       /\ upload_result' =
            IF Decoded(wire, "Value") THEN wire.body ELSE upload_result
  /\ UNCHANGED <<file, competition, message, url_result>>

cs_direct_uploaded ==
  /\ pc = "uploading_direct"
  /\ \E wire \in Wire(UploadBodies) :
       /\ Take(after_direct_upload(wire, url_result, competition, message))
       /\ replies' = Append(replies, Reply(wire, "Value"))
       /\ upload_result' =
            IF Decoded(wire, "Value") THEN url_result ELSE upload_result
  /\ UNCHANGED <<file, competition, message, url_result>>

cs_finalized ==
  /\ pc = "finalizing"
  /\ \E wire \in Wire(FinalizeBodies) :
       /\ Take(after_finalize(wire))
       /\ replies' = Append(replies, Reply(wire, "SubmitResult"))
  /\ UNCHANGED <<file, competition, message, url_result, upload_result>>

(***************************************************************************)
(* KaggleApiClient::upload_file and KaggleApiClient::upload_files          *)
(***************************************************************************)
\* a name whose bytes are no valid unicode: OsStr::to_str() gives None
NonUnicodeName ==
  "\\xff"

RegularFile(name, mtime) ==
  [name |-> name, kind |-> "file", exists |-> TRUE, len |-> 7,
   mtime |-> mtime, nested |-> <<>>]

\* a sub-directory and the names of the regular files in it
Directory(name, nested) ==
  [name |-> name, kind |-> "dir", exists |-> TRUE, len |-> 0,
   mtime |-> 0, nested |-> nested]

\* neither a regular file nor a directory (a socket, a dangling link)
OtherEntry(name) ==
  [name |-> name, kind |-> "other", exists |-> TRUE, len |-> 0,
   mtime |-> 0, nested |-> <<>>]

Entries ==
  { RegularFile("a.csv", m) : m \in 0..MaxTime }
    \cup { OtherEntry("a.csv") }
    \cup { RegularFile("b.csv", m) : m \in 0..MaxTime }
    \cup { Directory("sub", n) : n \in {<<>>, <<"a.csv">>} }
    \cup { RegularFile(NonUnicodeName, 0), Directory(NonUnicodeName, <<>>) }

\* the folders: their children in directory order, no name twice
Folders ==
  UNION { { f \in [1..n -> Entries] :
              \A i, j \in 1..n : i # j => f[i].name # f[j].name }
          : n \in 0..MaxChildren }

\* a Resource of the dataset metadata: its path, its description, and its
\* schema if it has one
Resources ==
  { [path |-> "a.csv", description |-> "d1", schema |-> "cols1"],
    [path |-> "a.csv", description |-> "d2", schema |-> "none"],
    [path |-> "b.csv", description |-> "d3", schema |-> "none"] }

ResourceLists ==
  UNION { [1..n -> Resources] : n \in 0..2 }

\* WalkDir::new(folder).min_depth(min).max_depth(max): the folder's entries
\* in pre-order, each child (depth 1) before what it contains (depth 2),
\* those of a depth in min..max
RECURSIVE walk_dir(_, _, _)
walk_dir(children, min_depth, max_depth) ==
  IF children = <<>> THEN <<>>
  ELSE LET child == Head(children)
           below == [i \in 1..Len(child.nested) |->
                       RegularFile(child.nested[i], 0)]
       IN  (IF min_depth <= 1 /\ 1 <= max_depth THEN <<child>> ELSE <<>>)
             \o (IF min_depth <= 2 /\ 2 <= max_depth THEN below ELSE <<>>)
             \o walk_dir(Tail(children), min_depth, max_depth)

\* a variant that leaves the depth of the walk unbounded
entries_of_recursive(children) ==
  walk_dir(children, 1, 2)

\* lines 436-440: the entries the loop of upload_files runs over
entries_of(children) ==
  walk_dir(children, 1, 1)

\* lines 431-432 and 454: the map from path to resource, collected in list
\* order (a later resource replaces an earlier one of the same path), and
\* the lookup of a file name in it
resource_for(list, file_name) ==
  LET hits == { i \in 1..Len(list) : list[i].path = file_name }
  IN  IF hits = {}
      THEN [some |-> FALSE, description |-> "", schema |-> "none"]
      ELSE LET last == CHOOSE i \in hits : \A j \in hits : j <= i
           IN  [some |-> TRUE, description |-> list[last].description,
                schema |-> list[last].schema]

\* DatasetUploadFile::new: the token, nothing else set
DatasetUploadFile(token) ==
  [token |-> token,
   description |-> [some |-> FALSE, val |-> ""],
   columns |-> [some |-> FALSE, val |-> "none"]]

\* lines 412-419: the upload file built from the negotiated token and the
\* resource item, if any
build_upload_file(token, item) ==
  LET new == DatasetUploadFile(token)
  IN  IF ~item.some THEN new
      ELSE [new EXCEPT
              !.description = [some |-> TRUE, val |-> item.description],
              !.columns = IF item.schema # "none"
                          THEN [some |-> TRUE, val |-> item.schema]
                          ELSE new.columns]

\* POST /datasets/upload/file/{content_length}/{secs}
datasets_upload_file(file_name, content_length, last_modified) ==
  [Req("datasets/upload/file", "POST") EXCEPT
     !.file_name = file_name, !.content_length = content_length,
     !.last_modified_secs = last_modified, !.body = "multipart(fileName)"]

\* the bodies a dataset negotiation can come back with
FileUploadBodies ==
  {NotJson}
    \cup { JsonObject("absent", Absent, tk) :
             tk \in {Absent, String(Tok1), String(Tok2)} }

UfWire ==
  {[TransportFault EXCEPT !.body = NotJson]}
    \cup [status : {200}, retry_after : {NoHeader}, body : FileUploadBodies]
    \cup [status : {UNAUTHORIZED}, retry_after : {NoHeader},
          body : {NotJson}]
    \cup [status : {TOO_MANY_REQUESTS},
          retry_after : {NoHeader, HeaderText(<<"3", "0">>)},
          body : {NotJson}]

UfInit ==
  /\ uf_pc = "start"
  /\ folder \in Folders
  /\ resources \in ResourceLists
  /\ walk = <<>>
  /\ tmp = FALSE
  /\ negotiations = <<>>
  /\ uploads = <<>>
  /\ uf_result = NoResult

UfIdle ==
  /\ uf_pc = "idle"
  /\ folder = <<>>
  /\ resources = <<>>
  /\ walk = <<>>
  /\ tmp = FALSE
  /\ negotiations = <<>>
  /\ uploads = <<>>
  /\ uf_result = NoResult

UfEnd(res) ==
  /\ uf_pc' = "done"
  /\ uf_result' = res.result

\* lines 429-440: the empty Vec, the resource map, the walk
uf_begin ==
  /\ uf_pc = "start"
  /\ walk' = entries_of(folder)
  /\ uf_pc' = "walking"
  /\ UNCHANGED <<folder, resources, tmp, negotiations, uploads, uf_result>>

\* lines 442-447: the entry's file name, which must be valid unicode
\* whatever the entry is
uf_bad_name ==
  /\ uf_pc = "walking"
  /\ walk # <<>>
  /\ Head(walk).name = NonUnicodeName
  /\ UfEnd(Fail(Failure("Context", "File name is not valid unicode")))
  /\ UNCHANGED <<folder, resources, walk, tmp, negotiations, uploads>>

\* lines 449-456 for an entry that is a regular file: upload_file up to the
\* send of its negotiation request (lines 408-411)
uf_file ==
  /\ uf_pc = "walking"
  /\ walk # <<>>
  /\ Head(walk).name # NonUnicodeName
  /\ Head(walk).kind = "file"
  /\ LET entry == Head(walk)
         meta == get_file_metadata(entry, now)
     IN  IF ~meta.ok
         THEN /\ UfEnd(Fail(meta.err))
              /\ UNCHANGED negotiations
         ELSE /\ negotiations' =
                   Append(negotiations,
                          [request |-> datasets_upload_file(
                                         entry.name, meta.content_length,
                                         meta.last_modified),
                           replied |-> FALSE, decoded |-> FALSE,
                           token |-> <<>>])
              /\ uf_pc' = "negotiating"
              /\ UNCHANGED uf_result
  /\ UNCHANGED <<folder, resources, walk, tmp, uploads>>

\* lines 409-419 and 457: the negotiation came back; the upload file is
\* built and pushed
uf_negotiated ==
  /\ uf_pc = "negotiating"
  /\ \E wire \in UfWire :
       LET r == request_json(wire, "FileUploadInfo")
           n == Len(negotiations)
           info_token == wire.body.token.str
       IN  /\ negotiations' =
                [negotiations EXCEPT
                   ![n] = [@ EXCEPT !.replied = TRUE,
                                    !.decoded = (r.kind = "Ok"),
                                    !.token = IF r.kind = "Ok"
                                              THEN info_token ELSE <<>>]]
           /\ IF r.kind # "Ok"
              THEN /\ UfEnd(Propagate(r))
                   /\ UNCHANGED <<uploads, walk>>
              ELSE /\ uploads' =
                        Append(uploads,
                               build_upload_file(
                                 info_token,
                                 resource_for(resources, Head(walk).name)))
                   /\ walk' = Tail(walk)
                   /\ uf_pc' = "walking"
                   /\ UNCHANGED uf_result
  /\ UNCHANGED <<folder, resources, tmp>>

\* lines 458-468: a sub-directory: the temporary directory is created once
\* (TempDir::new can fail); nothing is archived or uploaded
uf_dir ==
  /\ uf_pc = "walking"
  /\ walk # <<>>
  /\ Head(walk).name # NonUnicodeName
  /\ Head(walk).kind = "dir"
  /\ \E created \in BOOLEAN :
       IF tmp \/ created
       THEN /\ tmp' = TRUE
            /\ walk' = Tail(walk)
            /\ UNCHANGED <<uf_pc, uf_result>>
       ELSE /\ UfEnd(Fail(Failure("Io", "TempDir")))
            /\ UNCHANGED <<tmp, walk>>
  /\ UNCHANGED <<folder, resources, negotiations, uploads>>

\* lines 449-468: an entry that is neither: the loop goes on
uf_skip ==
  /\ uf_pc = "walking"
  /\ walk # <<>>
  /\ Head(walk).name # NonUnicodeName
  /\ Head(walk).kind = "other"
  /\ walk' = Tail(walk)
  /\ UNCHANGED <<uf_pc, folder, resources, tmp, negotiations, uploads,
                 uf_result>>

\* line 471: Ok(uploads)
uf_return ==
  /\ uf_pc = "walking"
  /\ walk = <<>>
  /\ UfEnd(Return("uploads"))
  /\ UNCHANGED <<folder, resources, walk, tmp, negotiations, uploads>>

(***************************************************************************)
(* KaggleApiClientBuilder and KaggleApiClientBuilder::build                *)
(***************************************************************************)
AUTHORIZATION ==
  "authorization"

USER_AGENT ==
  "user-agent"

\* the header names the model follows; x-caller stands for any header of the
\* caller's own
HeaderNames ==
  {AUTHORIZATION, USER_AGENT, "x-caller"}

\* HeaderMap::with_capacity(3): no header at all
default_headers ==
  [n \in HeaderNames |-> NoHeader]

\* HeaderMap::insert: the value replaces what the map held under the name
insert(headers, name, value) ==
  [headers EXCEPT ![name] = value]

\* the byte of a character of a user name or key
Ascii(c) ==
  CASE c = ":" -> 58
    [] c = "a" -> 97
    [] c = "b" -> 98
    [] c = "e" -> 101
    [] c = "k" -> 107
    [] c = "y" -> 121

bytes_of(s) ==
  [i \in 1..Len(s) |-> Ascii(s[i])]

\* base64::STANDARD: the alphabet, indexed from 1
B64 ==
  << "A", "B", "C", "D", "E", "F", "G", "H", "I", "J", "K", "L", "M",
     "N", "O", "P", "Q", "R", "S", "T", "U", "V", "W", "X", "Y", "Z",
     "a", "b", "c", "d", "e", "f", "g", "h", "i", "j", "k", "l", "m",
     "n", "o", "p", "q", "r", "s", "t", "u", "v", "w", "x", "y", "z",
     "0", "1", "2", "3", "4", "5", "6", "7", "8", "9", "+", "/" >>

\* the i-th (from the left, 0..3) six-bit digit of a 24-bit group
Sextet(n, i) ==
  B64[((n \div (64 ^ (3 - i))) % 64) + 1]

\* what base64::write::EncoderWriter has written once it is dropped: the
\* padded encoding of all the bytes written to it
RECURSIVE base64_encode(_)
base64_encode(bytes) ==
  IF Len(bytes) = 0 THEN <<>>
  ELSE IF Len(bytes) = 1
       THEN LET n == bytes[1] * 65536
            IN  << Sextet(n, 0), Sextet(n, 1), "=", "=" >>
       ELSE IF Len(bytes) = 2
            THEN LET n == bytes[1] * 65536 + bytes[2] * 256
                 IN  << Sextet(n, 0), Sextet(n, 1), Sextet(n, 2), "=" >>
            ELSE LET n == bytes[1] * 65536 + bytes[2] * 256 + bytes[3]
                 IN  << Sextet(n, 0), Sextet(n, 1), Sextet(n, 2),
                        Sextet(n, 3) >>
                       \o base64_encode(SubSeq(bytes, 4, Len(bytes)))

\* lines 147-154: b"Basic " followed by the encoding of "{user_name}:" and
\* "{key}"
header_value(credentials) ==
  << "B", "a", "s", "i", "c", " " >>
    \o base64_encode(bytes_of(credentials.user_name \o <<":">>)
                       \o bytes_of(credentials.key))

\* Option values of the builder's fields
None(default) ==
  [some |-> FALSE, val |-> default]

Some(v) ==
  [some |-> TRUE, val |-> v]

UserNames ==
  { <<"a">>, <<"a", "b">> }

Keys ==
  { <<"k">>, <<"k", "e", "y">> }

\* what Authentication::credentials() gives for an Authentication: a
\* user name and a key, or an error when its source holds none
NoCredentials ==
  [ok |-> FALSE, user_name |-> <<>>, key |-> <<>>]

Authentications ==
  [ok : {TRUE}, user_name : UserNames, key : Keys] \cup {NoCredentials}

credentials(auth) ==
  auth

\* a user agent the caller names: text a HeaderValue can hold, or not
NoUserAgent ==
  [valid |-> FALSE, text |-> <<>>]

UserAgents ==
  { [valid |-> TRUE, text |-> <<"cli", "/", "2">>], NoUserAgent }

\* concat!(CARGO_PKG_NAME, "/", CARGO_PKG_VERSION)
PkgUserAgent ==
  << "CARGO_PKG_NAME", "/", "CARGO_PKG_VERSION" >>

\* header maps a caller hands to headers(): empty, with a header of its own,
\* with an Authorization of its own
CallerHeaders ==
  { default_headers,
    insert(default_headers, "x-caller", HeaderText(<<"1">>)),
    insert(default_headers, AUTHORIZATION,
           HeaderText(<<"B", "e", "a", "r", "e", "r", " ", "t">>)) }

\* a reqwest::Client is, for the requests it sends, its default headers
Client(headers) ==
  [default_headers |-> headers]

\* clients a caller hands to client(): one built with no default headers,
\* one with a header of its own, one that authenticates as some user
CallerClients ==
  { Client(h) : h \in CallerHeaders }
    \cup { Client(insert(default_headers, AUTHORIZATION,
                         HeaderText(header_value(
                           [ok |-> TRUE, user_name |-> <<"a">>,
                            key |-> <<"k">>])))) }

DownloadDirs ==
  {"data"}

\* impl Default for KaggleApiClientBuilder
DefaultBuilder ==
  [user_agent |-> None(NoUserAgent),
   client |-> None(Client(default_headers)),
   headers |-> None(default_headers),
   auth |-> None(NoCredentials),
   download_dir |-> None("")]

NoBuild ==
  [kind |-> "none", err |-> NoError,
   client |-> Client(default_headers), credentials |-> NoCredentials,
   download_dir |-> ""]

BuildErr(e) ==
  [NoBuild EXCEPT !.kind = "Err", !.err = e]

\* build, for a builder b, the Authentication the environment gives by
\* default, and whether the TLS backend and the temporary directory could be
\* set up
build(b, env, tls_ok, tmp_ok) ==
  LET creds == credentials(IF b.auth.some THEN b.auth.val ELSE env)
      headers0 == IF b.headers.some THEN b.headers.val ELSE default_headers
      headers1 == insert(headers0, AUTHORIZATION,
                         HeaderText(header_value(creds)))
      headers2 == insert(headers1, USER_AGENT,
                         IF b.user_agent.some
                         THEN HeaderText(b.user_agent.val.text)
                         ELSE HeaderText(PkgUserAgent))
  IN  IF ~creds.ok THEN BuildErr(Failure("Credentials", "none found"))
      ELSE IF b.user_agent.some /\ ~b.user_agent.val.valid
           THEN BuildErr(Failure("InvalidHeaderValue", "user agent"))
           ELSE IF ~b.client.some /\ ~tls_ok
                THEN BuildErr(Failure("Reqwest", "builder"))
                ELSE IF ~b.download_dir.some /\ ~tmp_ok
                     THEN BuildErr(Failure("Io", "TempDir"))
                     ELSE [kind |-> "Ok", err |-> NoError,
                           client |-> IF b.client.some THEN b.client.val
                                      ELSE Client(headers2),
                           credentials |-> creds,
                           download_dir |-> IF b.download_dir.some
                                            THEN b.download_dir.val
                                            ELSE "kaggle-rs.tmp"]

\* the headers of a request the client puts on the wire: the requests of
\* this file set none of the followed headers themselves, so each is the
\* default of the reqwest client
wire_headers(api_client) ==
  api_client.client.default_headers

BdInit ==
  /\ bd_pc = "configuring"
  /\ builder = DefaultBuilder
  /\ bd_env \in Authentications
  /\ bd_out = NoBuild
  /\ issued = <<>>

BdIdle ==
  /\ bd_pc = "idle"
  /\ builder = DefaultBuilder
  /\ bd_env = NoCredentials
  /\ bd_out = NoBuild
  /\ issued = <<>>

bd_headers ==
  /\ bd_pc = "configuring"
  /\ \E h \in CallerHeaders : builder' = [builder EXCEPT !.headers = Some(h)]
  /\ UNCHANGED <<bd_pc, bd_env, bd_out, issued>>

bd_user_agent ==
  /\ bd_pc = "configuring"
  /\ \E u \in UserAgents :
       builder' = [builder EXCEPT !.user_agent = Some(u)]
  /\ UNCHANGED <<bd_pc, bd_env, bd_out, issued>>

bd_client ==
  /\ bd_pc = "configuring"
  /\ \E c \in CallerClients : builder' = [builder EXCEPT !.client = Some(c)]
  /\ UNCHANGED <<bd_pc, bd_env, bd_out, issued>>

bd_auth ==
  /\ bd_pc = "configuring"
  /\ \E a \in Authentications : builder' = [builder EXCEPT !.auth = Some(a)]
  /\ UNCHANGED <<bd_pc, bd_env, bd_out, issued>>

bd_download_dir ==
  /\ bd_pc = "configuring"
  /\ \E d \in DownloadDirs :
       builder' = [builder EXCEPT !.download_dir = Some(d)]
  /\ UNCHANGED <<bd_pc, bd_env, bd_out, issued>>

bd_build ==
  /\ bd_pc = "configuring"
  /\ \E tls_ok \in BOOLEAN, tmp_ok \in BOOLEAN :
       bd_out' = build(builder, bd_env, tls_ok, tmp_ok)
  /\ bd_pc' = IF bd_out'.kind = "Ok" THEN "built" ELSE "failed"
  /\ UNCHANGED <<builder, bd_env, issued>>

\* any operation of the built client sends a request
bd_issue ==
  /\ bd_pc = "built"
  /\ Len(issued) < MaxRequests
  /\ \E method \in {"GET", "POST"} :
       issued' = Append(issued, [method |-> method,
                                 headers |-> wire_headers(bd_out)])
  /\ UNCHANGED <<bd_pc, builder, bd_env, bd_out>>

(***************************************************************************)
(* KaggleApiClient::join_url                                               *)
(*                                                                         *)
(* A URL is its origin, the segments of its path and its query; the text   *)
(* handed to join_url is a sequence of pieces, "/" and " " among them.     *)
(***************************************************************************)
\* impl Default for KaggleApiClientBuilder: https://www.kaggle.com/api/v1
base_url ==
  [origin |-> "https://www.kaggle.com", path |-> << <<"api">>, <<"v1">> >>,
   query |-> None(<<>>)]

\* the URL parser drops the leading and trailing spaces of its input
RECURSIVE trim(_)
trim(s) ==
  IF s # <<>> /\ Head(s) = " " THEN trim(Tail(s))
  ELSE IF s # <<>> /\ s[Len(s)] = " " THEN trim(SubSeq(s, 1, Len(s) - 1))
       ELSE s

\* Url::join: a reference that starts with "/" replaces the whole path, any
\* other replaces the last segment of the base
join_url(base, path) ==
  LET reference == trim(path)
  IN  IF reference # <<>> /\ Head(reference) = "/"
      THEN [base EXCEPT !.path = split(Tail(reference), "/")]
      ELSE [base EXCEPT !.path =
              SubSeq(base.path, 1, Len(base.path) - 1)
                \o split(reference, "/")]

(***************************************************************************)
(* The download operations and KaggleApiClient::download_file              *)
(***************************************************************************)
\* competition ids, as the pieces of their text
Ids ==
  { <<"titanic">>, <<"titanic", "-leaderboard">> }

FileNames ==
  { <<"train.csv">>, <<"test.csv">> }

\* target: Option<T>
Targets ==
  { None(<<>>), Some(<<"elsewhere", "/", "out.zip">>) }

\* PathBuf::join of the download directory and a relative file name
path_join(dir, name) ==
  <<dir, "/">> \o name

\* what each operation hands to download_file: the output path and the URL
competition_download_leaderboard(download_dir, id, target) ==
  [output |-> IF target.some THEN target.val
              ELSE path_join(download_dir, id \o <<"-leaderboard", ".zip">>),
   url |-> join_url(base_url,
                    <<"/", "competitions", "/">> \o id
                      \o <<"/", "leaderboard", "/", "download">>)]

competitions_data_download_file(download_dir, id, file_name, target) ==
  [output |-> IF target.some THEN target.val
              ELSE path_join(download_dir, id \o <<".zip">>),
   url |-> join_url(base_url,
                    <<"/", "competitions", "/", "data", "/", "download", "/">>
                      \o id \o <<"/">> \o file_name)]

competitions_data_download_files(download_dir, id, target) ==
  [output |-> IF target.some THEN target.val
              ELSE path_join(download_dir, id \o <<".zip">>),
   url |-> join_url(base_url,
                    <<" ", "/", "competitions", "/", "data", "/",
                      "download-all", "/">> \o id)]

\* the calls a caller can make: the operation and its arguments (file_name
\* is an argument of the single-file download only)
DownloadCalls ==
  [kind : {"leaderboard", "files"}, id : Ids, file_name : {<<>>},
   target : Targets]
    \cup [kind : {"file"}, id : Ids, file_name : FileNames, target : Targets]

prepare(download_dir, call) ==
  CASE call.kind = "leaderboard" ->
         competition_download_leaderboard(download_dir, call.id, call.target)
    [] call.kind = "file" ->
         competitions_data_download_file(download_dir, call.id,
                                         call.file_name, call.target)
    [] call.kind = "files" ->
         competitions_data_download_files(download_dir, call.id, call.target)

\* what the server can answer: a status and the chunks of the body, an
\* archive for a 2xx and an error page for anything else
DlResponses ==
  [status : {200}, chunks : { <<"zip1">>, <<"zip1", "zip2">> }]
    \cup [status : {UNAUTHORIZED, TOO_MANY_REQUESTS, 500},
          chunks : { <<>>, <<"error page">> }]

\* the two operations in flight
Ops ==
  {1, 2}

DlNoResult ==
  [kind |-> "none", value |-> <<>>, err |-> NoError]

DlOk(path) ==
  [kind |-> "Ok", value |-> path, err |-> NoError]

DlErr(e) ==
  [kind |-> "Err", value |-> <<>>, err |-> e]

\* an operation before its call: its arguments, and nothing else yet
NewOp(call) ==
  [call |-> call, pc |-> "start", output |-> <<>>, url |-> base_url,
   status |-> 0, pending |-> <<>>, offset |-> 0, result |-> DlNoResult]

\* a file of the local filesystem: absent, or the chunks written to it
NoFile ==
  [exists |-> FALSE, data |-> <<>>]

\* every path an operation of the model can write to
DlPaths ==
  { prepare("download_dir", c).output : c \in DownloadCalls }

\* write_all at the position of a file handle: the chunk replaces what is
\* there, a gap before it reads as a hole
write_at(data, offset, chunk) ==
  [i \in 1..(IF offset + 1 > Len(data) THEN offset + 1 ELSE Len(data)) |->
     IF i = offset + 1 THEN chunk
     ELSE IF i <= Len(data) THEN data[i] ELSE "hole"]

DlInit ==
  /\ dl_ops \in [Ops -> { NewOp(c) : c \in DownloadCalls }]
  /\ fs = [p \in DlPaths |-> NoFile]

DlIdle ==
  /\ dl_ops = [p \in Ops |->
                 [NewOp([kind |-> "files", id |-> <<"titanic">>,
                         file_name |-> <<>>, target |-> None(<<>>)])
                    EXCEPT !.pc = "idle"]]
  /\ fs = [p \in DlPaths |-> NoFile]

\* lines 497-508, 530-542, 551-562: the output path, the request, and
\* download_file up to the suspension on req.send()
dl_call ==
  \E p \in Ops :
    /\ dl_ops[p].pc = "start"
    /\ LET prepared == prepare("download_dir", dl_ops[p].call)
       IN  dl_ops' = [dl_ops EXCEPT ![p].pc = "sending",
                                    ![p].output = prepared.output,
                                    ![p].url = prepared.url]
    /\ UNCHANGED fs

\* line 355: the response arrives, whatever its status
dl_response ==
  \E p \in Ops, resp \in DlResponses :
    /\ dl_ops[p].pc = "sending"
    /\ dl_ops' = [dl_ops EXCEPT ![p].pc = "creating",
                                ![p].status = resp.status,
                                ![p].pending = resp.chunks]
    /\ UNCHANGED fs

\* line 355: no response arrives, ? returns the error
dl_transport_error ==
  \E p \in Ops :
    /\ dl_ops[p].pc = "sending"
    /\ dl_ops' = [dl_ops EXCEPT ![p].pc = "done",
                                ![p].result =
                                  DlErr(Failure("Reqwest", "send"))]
    /\ UNCHANGED fs

\* lines 357-358: File::create makes the file or empties it
dl_create ==
  \E p \in Ops, created \in BOOLEAN :
    /\ dl_ops[p].pc = "creating"
    /\ IF created
       THEN /\ dl_ops' = [dl_ops EXCEPT ![p].pc = "writing",
                                        ![p].offset = 0]
            /\ fs' = [fs EXCEPT ![dl_ops[p].output] =
                        [exists |-> TRUE, data |-> <<>>]]
       ELSE /\ dl_ops' = [dl_ops EXCEPT ![p].pc = "done",
                                        ![p].result =
                                          DlErr(Failure("Io", "create"))]
            /\ UNCHANGED fs

\* lines 360-362: the next chunk of the body is written to the file; the
\* read of the chunk or the write can fail
dl_chunk ==
  \E p \in Ops, outcome \in {"written", "read error", "write error"} :
    /\ dl_ops[p].pc = "writing"
    /\ dl_ops[p].pending # <<>>
    /\ IF outcome = "written"
       THEN /\ dl_ops' = [dl_ops EXCEPT
                            ![p].pending = Tail(dl_ops[p].pending),
                            ![p].offset = dl_ops[p].offset + 1]
            /\ fs' = [fs EXCEPT ![dl_ops[p].output].data =
                        write_at(fs[dl_ops[p].output].data,
                                 dl_ops[p].offset,
                                 Head(dl_ops[p].pending))]
       ELSE /\ dl_ops' = [dl_ops EXCEPT
                            ![p].pc = "done",
                            ![p].result =
                              DlErr(IF outcome = "read error"
                                    THEN Failure("Reqwest", "chunk")
                                    ELSE Failure("Io", "write"))]
            /\ UNCHANGED fs

\* lines 360, 363: the body is at its end, Ok(output.to_path_buf())
dl_return ==
  \E p \in Ops :
    /\ dl_ops[p].pc = "writing"
    /\ dl_ops[p].pending = <<>>
    /\ dl_ops' = [dl_ops EXCEPT ![p].pc = "done",
                                ![p].result = DlOk(dl_ops[p].output)]
    /\ UNCHANGED fs

(***************************************************************************)
(* into_bytes_stream: FramedRead over BytesCodec, then map_ok(freeze)      *)
(***************************************************************************)
\* the byte values the files of the model are made of
ByteValues ==
  {0, 255}

\* the files read: every sequence of at most MaxBytes bytes
StFiles ==
  UNION { [1..n -> ByteValues] : n \in 0..MaxBytes }

\* an item of the stream: Ok(bytes) or Err(io error)
ItemOk(bytes) ==
  [ok |-> TRUE, bytes |-> bytes]

ItemErr ==
  [ok |-> FALSE, bytes |-> <<>>]

\* what one poll_read of the AsyncRead brings: some bytes (none at the end
\* of the file) or an error
ReadBytes(bytes) ==
  [kind |-> "bytes", bytes |-> bytes]

ReadError ==
  [kind |-> "error", bytes |-> <<>>]

\* FramedRead::new: an empty buffer, nothing to decode yet
NewFramedRead ==
  [buffer |-> <<>>, eof |-> FALSE, is_readable |-> FALSE]

\* BytesCodec::decode: the whole buffer as one frame, nothing when the
\* buffer is empty
bytes_codec_decode(buffer) ==
  IF Len(buffer) > 0
  THEN [some |-> TRUE, frame |-> buffer, rest |-> <<>>]
  ELSE [some |-> FALSE, frame |-> <<>>, rest |-> buffer]

\* FramedRead::poll_next for a read that is ready: frames are decoded from
\* the buffer while it is readable, otherwise the reader is read once; the
\* result is the item (or the end of the stream) and the new state
RECURSIVE poll_next(_, _, _)
poll_next(framed, read, used) ==
  IF framed.is_readable
  THEN LET d == bytes_codec_decode(framed.buffer)
       IN  IF d.some
           THEN [end |-> FALSE, item |-> ItemOk(d.frame), used |-> used,
                 framed |-> [framed EXCEPT !.buffer = d.rest]]
           ELSE IF framed.eof
                THEN [end |-> TRUE, item |-> ItemErr, used |-> used,
                      framed |-> framed]
                ELSE poll_next([framed EXCEPT !.is_readable = FALSE],
                               read, used)
  ELSE IF read.kind = "error"
       THEN [end |-> FALSE, item |-> ItemErr, used |-> TRUE,
             framed |-> framed]
       ELSE poll_next([framed EXCEPT
                         !.buffer = framed.buffer \o read.bytes,
                         !.eof = (read.bytes = <<>>),
                         !.is_readable = TRUE],
                      read, TRUE)

\* a variant that turns an error item into an empty chunk
map_ok_freeze_swallows_error(item) ==
  IF item.ok THEN ItemOk(item.bytes) ELSE ItemOk(<<>>)

\* .map_ok(|bytes| bytes.freeze()): an Ok item keeps its bytes, an error
\* item passes through
map_ok_freeze(item) ==
  IF item.ok THEN ItemOk(item.bytes) ELSE item

StInit ==
  /\ st_pc = "polling"
  /\ st_file \in StFiles
  /\ st_pos = 0
  /\ st_framed = NewFramedRead
  /\ st_items = <<>>
  /\ st_failed = FALSE

StIdle ==
  /\ st_pc = "idle"
  /\ st_file = <<>>
  /\ st_pos = 0
  /\ st_framed = NewFramedRead
  /\ st_items = <<>>
  /\ st_failed = FALSE

\* one poll of the stream by its consumer, the reader answering with read;
\* the consumer stops at the end of the stream and at the first error item
StPoll(read) ==
  LET polled == poll_next(st_framed, read, FALSE)
  IN  /\ st_framed' = polled.framed
      /\ st_pos' = IF polled.used THEN st_pos + Len(read.bytes) ELSE st_pos
      /\ st_failed' = (st_failed \/ (polled.used /\ read.kind = "error"))
      /\ IF polled.end
         THEN /\ st_pc' = "ended"
              /\ st_items' = st_items
         ELSE /\ st_items' = Append(st_items, map_ok_freeze(polled.item))
              /\ st_pc' = IF polled.item.ok THEN "polling" ELSE "failed"
      /\ UNCHANGED st_file

\* the reader gives the next n bytes of the file, n of its own choosing
st_read ==
  /\ st_pc = "polling"
  /\ st_pos < Len(st_file)
  /\ \E n \in 1..MaxBytes :
       /\ st_pos + n <= Len(st_file)
       /\ StPoll(ReadBytes(SubSeq(st_file, st_pos + 1, st_pos + n)))

\* the reader fails
st_read_error ==
  /\ st_pc = "polling"
  /\ StPoll(ReadError)

\* the reader is at the end of the file: it gives no bytes
st_eof ==
  /\ st_pc = "polling"
  /\ st_pos = Len(st_file)
  /\ StPoll(ReadBytes(<<>>))

(***************************************************************************)
(* KaggleApiClient::competitions_list and the query it serializes          *)
(***************************************************************************)
\* usize::to_string: the decimal digits of n
RECURSIVE to_string(_)
to_string(n) ==
  IF n < 10 THEN <<Digits[n + 1]>>
  ELSE to_string(n \div 10) \o <<Digits[(n % 10) + 1]>>

\* the texts a filter of the query can hold
FilterTexts ==
  { <<>>, <<"a">>, <<"a", " ", "&">> }

\* the pages a query can ask for
Pages ==
  {1, 2, 10, 12}

\* CompetitionsList: the filters of the competition listing
CompetitionsLists ==
  [group : FilterTexts, category : FilterTexts, sort_by : FilterTexts,
   page : Pages, search : FilterTexts]

\* CompetitionsList::default(): every text filter empty, the first page
CompetitionsList_default ==
  [group |-> <<>>, category |-> <<>>, sort_by |-> <<>>, page |-> 1,
   search |-> <<>>]

\* impl Serialize for CompetitionsList: the five fields as name and value,
\* in the order of their declaration, sort_by under the name sortBy
serialize(filters) ==
  << <<"group", filters.group>>,
     <<"category", filters.category>>,
     <<"sortBy", filters.sort_by>>,
     <<"page", to_string(filters.page)>>,
     <<"search", filters.search>> >>

\* application/x-www-form-urlencoded: a space becomes "+", "&" is
\* percent-encoded, letters and digits stay
RECURSIVE urlencode(_)
urlencode(text) ==
  IF text = <<>> THEN <<>>
  ELSE (CASE Head(text) = " " -> <<"+">>
          [] Head(text) = "&" -> <<"%", "2", "6">>
          [] OTHER -> <<Head(text)>>)
         \o urlencode(Tail(text))

\* name=value of each pair, joined by "&"
RECURSIVE urlencoded(_)
urlencoded(pairs) ==
  IF pairs = <<>> THEN <<>>
  ELSE <<pairs[1][1], "=">> \o urlencode(pairs[1][2])
         \o (IF Len(pairs) > 1 THEN <<"&">> ELSE <<>>)
         \o urlencoded(Tail(pairs))

\* a variant that leaves out the pairs whose value is empty
query_skips_empty_values(url, pairs) ==
  LET HasValue(pair) == pair[2] # <<>>
  IN  [url EXCEPT !.query = Some(urlencoded(SelectSeq(pairs, HasValue)))]

\* RequestBuilder::query: the pairs, urlencoded, become the query of the URL
query(url, pairs) ==
  [url EXCEPT !.query = Some(urlencoded(pairs))]

\* lines 483-487: the GET request competitions_list builds
competitions_list(filters) ==
  [method |-> "GET",
   url |-> query(join_url(base_url, <<"competitions", "/", "list">>),
                 serialize(filters))]

ClInit ==
  /\ cl_pc = "start"
  /\ cl_query \in CompetitionsLists
  /\ cl_req = [method |-> "GET", url |-> base_url]
  /\ cl_result = Pending

ClIdle ==
  /\ cl_pc = "idle"
  /\ cl_query = CompetitionsList_default
  /\ cl_req = [method |-> "GET", url |-> base_url]
  /\ cl_result = Pending

\* the request is built and put on the wire
cl_build_request ==
  /\ cl_pc = "start"
  /\ cl_req' = competitions_list(cl_query)
  /\ cl_pc' = "awaiting"
  /\ UNCHANGED <<cl_query, cl_result>>

\* request_json: what comes back is classified and decoded as a Value
cl_return ==
  /\ cl_pc = "awaiting"
  /\ \E wire \in Wire({NotJson, JsonArray}) :
       cl_result' = request_json(wire, "Value")
  /\ cl_pc' = "done"
  /\ UNCHANGED <<cl_query, cl_req>>

(***************************************************************************)
(* Specifications.                                                         *)
(***************************************************************************)
\* one call of request
InitRequest ==
  now = 0 /\ RqInit /\ CsIdle /\ UfIdle /\ BdIdle /\ StIdle /\ DlIdle /\ ClIdle

NextRequest ==
  \/ request_send /\ UNCHANGED <<now, cs_vars, uf_vars, bd_vars, st_vars, dl_vars, cl_vars>>
  \/ request_return /\ UNCHANGED <<now, cs_vars, uf_vars, bd_vars, st_vars, dl_vars, cl_vars>>

SpecRequest ==
  InitRequest /\ [][NextRequest]_vars

\* one call of competition_submit
InitSubmit ==
  now \in 0..MaxTime /\ RqIdle /\ CsInit /\ UfIdle /\ BdIdle /\ StIdle /\ DlIdle /\ ClIdle

NextSubmit ==
  \/ cs_start /\ UNCHANGED <<now, rq_vars, uf_vars, bd_vars, st_vars, dl_vars, cl_vars>>
  \/ cs_negotiated /\ UNCHANGED <<now, rq_vars, uf_vars, bd_vars, st_vars, dl_vars, cl_vars>>
  \/ cs_legacy_uploaded /\ UNCHANGED <<now, rq_vars, uf_vars, bd_vars, st_vars, dl_vars, cl_vars>>
  \/ cs_direct_uploaded /\ UNCHANGED <<now, rq_vars, uf_vars, bd_vars, st_vars, dl_vars, cl_vars>>
  \/ cs_finalized /\ UNCHANGED <<now, rq_vars, uf_vars, bd_vars, st_vars, dl_vars, cl_vars>>

SpecSubmit ==
  InitSubmit /\ [][NextSubmit]_vars

\* one call of upload_files
InitUploadFiles ==
  now \in 0..MaxTime /\ RqIdle /\ CsIdle /\ UfInit /\ BdIdle /\ StIdle /\ DlIdle /\ ClIdle

NextUploadFiles ==
  \/ uf_begin /\ UNCHANGED <<now, rq_vars, cs_vars, bd_vars, st_vars, dl_vars, cl_vars>>
  \/ uf_bad_name /\ UNCHANGED <<now, rq_vars, cs_vars, bd_vars, st_vars, dl_vars, cl_vars>>
  \/ uf_file /\ UNCHANGED <<now, rq_vars, cs_vars, bd_vars, st_vars, dl_vars, cl_vars>>
  \/ uf_negotiated /\ UNCHANGED <<now, rq_vars, cs_vars, bd_vars, st_vars, dl_vars, cl_vars>>
  \/ uf_dir /\ UNCHANGED <<now, rq_vars, cs_vars, bd_vars, st_vars, dl_vars, cl_vars>>
  \/ uf_skip /\ UNCHANGED <<now, rq_vars, cs_vars, bd_vars, st_vars, dl_vars, cl_vars>>
  \/ uf_return /\ UNCHANGED <<now, rq_vars, cs_vars, bd_vars, st_vars, dl_vars, cl_vars>>

SpecUploadFiles ==
  InitUploadFiles /\ [][NextUploadFiles]_vars

\* a builder configured and built, and the requests of the client it built
InitBuild ==
  now = 0 /\ RqIdle /\ CsIdle /\ UfIdle /\ BdInit /\ StIdle /\ DlIdle /\ ClIdle

NextBuild ==
  \/ bd_headers /\ UNCHANGED <<now, rq_vars, cs_vars, uf_vars, st_vars, dl_vars, cl_vars>>
  \/ bd_user_agent /\ UNCHANGED <<now, rq_vars, cs_vars, uf_vars, st_vars, dl_vars, cl_vars>>
  \/ bd_client /\ UNCHANGED <<now, rq_vars, cs_vars, uf_vars, st_vars, dl_vars, cl_vars>>
  \/ bd_auth /\ UNCHANGED <<now, rq_vars, cs_vars, uf_vars, st_vars, dl_vars, cl_vars>>
  \/ bd_download_dir /\ UNCHANGED <<now, rq_vars, cs_vars, uf_vars, st_vars, dl_vars, cl_vars>>
  \/ bd_build /\ UNCHANGED <<now, rq_vars, cs_vars, uf_vars, st_vars, dl_vars, cl_vars>>
  \/ bd_issue /\ UNCHANGED <<now, rq_vars, cs_vars, uf_vars, st_vars, dl_vars, cl_vars>>

SpecBuild ==
  InitBuild /\ [][NextBuild]_vars

\* one stream made by into_bytes_stream, polled to its end
InitStream ==
  now = 0 /\ RqIdle /\ CsIdle /\ UfIdle /\ BdIdle /\ StInit /\ DlIdle /\ ClIdle

NextStream ==
  \/ st_read /\ UNCHANGED <<now, rq_vars, cs_vars, uf_vars, bd_vars, dl_vars, cl_vars>>
  \/ st_read_error /\ UNCHANGED <<now, rq_vars, cs_vars, uf_vars, bd_vars, dl_vars, cl_vars>>
  \/ st_eof /\ UNCHANGED <<now, rq_vars, cs_vars, uf_vars, bd_vars, dl_vars, cl_vars>>

SpecStream ==
  InitStream /\ [][NextStream]_vars

\* two download operations running interleaved
InitDownload ==
  now = 0 /\ RqIdle /\ CsIdle /\ UfIdle /\ BdIdle /\ StIdle /\ DlInit /\ ClIdle

NextDownload ==
  \/ dl_call /\ UNCHANGED <<now, rq_vars, cs_vars, uf_vars, bd_vars, st_vars, cl_vars>>
  \/ dl_response /\ UNCHANGED <<now, rq_vars, cs_vars, uf_vars, bd_vars, st_vars, cl_vars>>
  \/ dl_transport_error /\ UNCHANGED <<now, rq_vars, cs_vars, uf_vars, bd_vars, st_vars, cl_vars>>
  \/ dl_create /\ UNCHANGED <<now, rq_vars, cs_vars, uf_vars, bd_vars, st_vars, cl_vars>>
  \/ dl_chunk /\ UNCHANGED <<now, rq_vars, cs_vars, uf_vars, bd_vars, st_vars, cl_vars>>
  \/ dl_return /\ UNCHANGED <<now, rq_vars, cs_vars, uf_vars, bd_vars, st_vars, cl_vars>>

SpecDownload ==
  InitDownload /\ [][NextDownload]_vars

\* one call of competitions_list
InitList ==
  now = 0 /\ RqIdle /\ CsIdle /\ UfIdle /\ BdIdle /\ StIdle /\ DlIdle /\ ClInit

NextList ==
  \/ cl_build_request /\ UNCHANGED <<now, rq_vars, cs_vars, uf_vars, bd_vars, st_vars, dl_vars>>
  \/ cl_return /\ UNCHANGED <<now, rq_vars, cs_vars, uf_vars, bd_vars, st_vars, dl_vars>>

SpecList ==
  InitList /\ [][NextList]_vars

(***************************************************************************)
(* Properties of competition_submit (specification SpecSubmit).            *)
(***************************************************************************)
UrlEndpoint ==
  "competitions/submissions/url"

UploadEndpoint ==
  "competitions/submissions/upload"

PutEndpoint ==
  "createUrl"

SubmitEndpoint ==
  "competitions/submissions/submit"

SentTo(endpoint) ==
  { i \in 1..Len(sent) : sent[i].endpoint = endpoint }

\* the negotiation came back as a decoded 2xx: url_result holds its body
Negotiated ==
  Len(replies) >= 1 /\ replies[1].decoded

\* the upload request came back as a decoded 2xx: upload_result is set
Uploaded ==
  Len(replies) >= 2 /\ replies[2].decoded

ErrorIs(type, msg) ==
  result.kind = "Err" /\ result.err.type = type /\ result.err.msg = msg

\* the function left before an upload request for a reason of the Legacy
\* branch: the createUrl lookup, the segment count, the number parse, or the
\* opening of the file to stream
LegacyStopped ==
  \/ ErrorIs("Context", "Missing createUrl field")
  \/ ErrorIs("Context", "createUrl response with incomplete segments")
  \/ ErrorIs("ParseInt", "invalid digit")
  \/ ErrorIs("Io", "open")

\* the same for the Direct branch: the createUrl lookup, the opening of the
\* file, a createUrl no request can be built for
DirectStopped ==
  \/ ErrorIs("Context", "Missing createUrl in response")
  \/ ErrorIs("Io", "open")
  \/ ErrorIs("Builder", "relative URL without a base")

\* C1: the branch is chosen by the presence of the isComplete key alone.
\* Once the negotiation response is decoded as an object: with the key
\* (whatever its value) no PUT is ever issued and the upload-by-guid POST is
\* the request that follows, unless the Legacy branch stopped before its
\* request; without the key no upload-by-guid POST is ever issued and the
\* PUT to createUrl is the request that follows, unless the Direct branch
\* stopped before its request.
C1_BranchOnIsComplete ==
  (Negotiated /\ url_result.object) =>
    IF url_result.isComplete # "absent"
    THEN /\ SentTo(PutEndpoint) = {}
         /\ \/ (Len(sent) >= 2 /\ sent[2].endpoint = UploadEndpoint)
            \/ (Len(sent) = 1 /\ LegacyStopped)
    ELSE /\ SentTo(UploadEndpoint) = {}
         /\ \/ /\ Len(sent) >= 2
               /\ sent[2].endpoint = PutEndpoint
               /\ sent[2].url = url_result.createUrl.str
            \/ (Len(sent) = 1 /\ DirectStopped)

\* a Legacy upload was sent on a response whose isComplete is null
C1_Witness ==
  /\ Negotiated
  /\ url_result.isComplete = "null"
  /\ SentTo(UploadEndpoint) # {}

\* C2 (as claimed): on the Legacy path, for a createUrl whose last three
\* pieces are g/n/s (a name, a number, a number), the upload-by-guid request
\* is built, with guid = g, content_length = n and last_modified_secs = s.
C2_TupleInUrlOrder ==
  (Negotiated /\ url_result.object /\ url_result.isComplete # "absent"
     /\ url_result.createUrl.kind = "string") =>
    LET ps == split(url_result.createUrl.str, "/")
        n  == Len(ps)
    IN  (n >= 3 /\ ps[n - 2] # <<>> /\ parse(ps[n - 1]).ok /\ parse(ps[n]).ok)
          =>
          /\ ~ErrorIs("ParseInt", "invalid digit")
          /\ \A i \in SentTo(UploadEndpoint) :
               /\ sent[i].guid = ps[n - 2]
               /\ sent[i].content_length = parse(ps[n - 1]).val
               /\ sent[i].last_modified_secs = parse(ps[n]).val

\* C3 (as claimed): on the Direct path, once the PUT came back with a 2xx
\* status and the negotiation response carries a token, the finalize request
\* follows with exactly that token, whatever the PUT response body is; the
\* PUT body is the bare stream.
C3_PutBodyIrrelevant ==
  \A i \in SentTo(PutEndpoint) :
    /\ sent[i].body = "stream"
    /\ (i <= Len(replies) /\ is_success(replies[i].status)
          /\ get_str(url_result, "token").some) =>
         /\ Len(sent) = i + 1
         /\ sent[i + 1].endpoint = SubmitEndpoint
         /\ sent[i + 1].token = get_str(url_result, "token").str

C5_MissingCreateUrl ==
  (Negotiated /\ ~get_str(url_result, "createUrl").some) =>
    /\ pc = "done"
    /\ result.kind = "Err"
    /\ Len(sent) = 1

\* the Direct branch met a createUrl that is a number
C5_Witness ==
  /\ Negotiated
  /\ url_result.object
  /\ url_result.isComplete = "absent"
  /\ url_result.createUrl.kind = "number"
  /\ pc = "done"

\* C6: the upload result is the upload-by-guid response on the Legacy path
\* and the negotiation response on the Direct path.  Without a string token
\* in it the function ends with the missing-token error and no finalize
\* request is sent; with one, the finalize request carries the competition
\* id, that token and the message; and a success value is the SubmitResult
\* decoded from the finalize response.
C6_TokenThenFinalize ==
  /\ Uploaded =>
       IF get_str(upload_result, "token").some
       THEN /\ Len(sent) = 3
            /\ sent[3] = competitions_submissions_submit(
                           competition, get_str(upload_result, "token").str,
                           message)
       ELSE /\ pc = "done"
            /\ ErrorIs("Context", "Missing upload token")
            /\ SentTo(SubmitEndpoint) = {}
  /\ Uploaded =>
       upload_result = IF SentTo(PutEndpoint) # {} THEN url_result
                       ELSE replies[2].body
  /\ SentTo(SubmitEndpoint) # {} => Uploaded
  /\ result.kind = "Ok" =>
       /\ Len(replies) = 3
       /\ replies[3].body.submit_result # "none"
       /\ result.value = replies[3].body.submit_result

\* the function returned the finalize result of a Legacy upload
C6_Witness ==
  /\ result.kind = "Ok"
  /\ SentTo(UploadEndpoint) # {}
  /\ sent[3].token = Tok2

\* the path segments of a createUrl: for an absolute URL what follows the
\* host, for a relative reference every piece
PathSegments(url) ==
  LET ps == split(url, "/")
  IN  IF IsAbsoluteUrl(url) THEN SubSeq(ps, 4, Len(ps)) ELSE ps

\* C7 (as claimed): on the Legacy path a createUrl with fewer than three
\* path segments ends the function with the incomplete-segments error and
\* no upload request is sent.
C7_FewerThanThreeSegments ==
  (Negotiated /\ url_result.object /\ url_result.isComplete # "absent"
     /\ url_result.createUrl.kind = "string"
     /\ Len(PathSegments(url_result.createUrl.str)) < 3) =>
    /\ pc = "done"
    /\ ErrorIs("Context", "createUrl response with incomplete segments")
    /\ Len(sent) = 1

(***************************************************************************)
(* Properties of request (specification SpecRequest).                      *)
(***************************************************************************)
\* C8 (as claimed): every non-2xx response makes request return an error,
\* never the response: 401 gives Unauthorized, 429 with a numeric
\* Retry-After n gives RateLimited(Some(n)), any other non-2xx status s
\* gives Other(s); a 2xx response is returned as it is; the request was
\* sent once.
C8_Classification ==
  (rq_pc = "done" /\ rq_resp.status # 0) =>
    /\ rq_sends = 1
    /\ is_success(rq_resp.status) => rq_out = Ok(rq_resp)
    /\ ~is_success(rq_resp.status) => rq_out.kind = "Err"
    /\ rq_resp.status = UNAUTHORIZED => rq_out = Err(Unauthorized)
    /\ ( /\ rq_resp.status = TOO_MANY_REQUESTS
         /\ rq_resp.retry_after.present
         /\ rq_resp.retry_after.ascii
         /\ parse(rq_resp.retry_after.text).ok ) =>
           rq_out = Err(RateLimited(parse(rq_resp.retry_after.text)))
    /\ ( /\ ~is_success(rq_resp.status)
         /\ rq_resp.status \notin {UNAUTHORIZED, TOO_MANY_REQUESTS} ) =>
           rq_out = Err(Other(rq_resp.status))

\* C9 (as claimed): a 429 whose Retry-After is absent or not numeric makes
\* request return RateLimited(None).
C9_RateLimitedNone ==
  ( /\ rq_pc = "done"
    /\ rq_resp.status = TOO_MANY_REQUESTS
    /\ \/ ~rq_resp.retry_after.present
       \/ ~rq_resp.retry_after.ascii
       \/ ~parse(rq_resp.retry_after.text).ok ) =>
    rq_out = Err(RateLimited([ok |-> FALSE, val |-> 0]))

(***************************************************************************)
(* Properties of upload_files (specification SpecUploadFiles).             *)
(***************************************************************************)
IsRegularFile(e) ==
  e.kind = "file"

\* the regular files that are immediate children of the folder, in the
\* order of the walk
RegularChildren ==
  SelectSeq(folder, IsRegularFile)

\* nothing local stands in the way of the walk: every name is valid
\* unicode, every regular file's metadata can be read at the time of the
\* call, and the temporary directory could be created
NoLocalFailure ==
  /\ \A i \in 1..Len(folder) :
       /\ folder[i].name # NonUnicodeName
       /\ folder[i].kind = "file" => folder[i].mtime <= now
  /\ ~( /\ uf_result.kind = "Err"
        /\ uf_result.err.type = "Io"
        /\ uf_result.err.msg = "TempDir" )

\* C10: the Vec upload_files returns holds exactly one DatasetUploadFile per
\* regular file that is an immediate child of the folder, in walk order;
\* sub-directories and what they contain add nothing.  Each entry's token is
\* the token the negotiation for that file's name returned; description and
\* columns are set only from a resource whose path is the file's name (the
\* description whenever there is one, the columns when it has a schema).
\* And the call does return the Vec when every negotiation succeeded and
\* nothing local failed.
C10_OneUploadPerRegularChild ==
  /\ (uf_pc = "done" /\ uf_result.kind = "Ok") =>
       LET files == RegularChildren
       IN  /\ Len(uploads) = Len(files)
           /\ Len(negotiations) = Len(files)
           /\ \A i \in 1..Len(files) :
                LET matches == { k \in 1..Len(resources) :
                                   resources[k].path = files[i].name }
                IN  /\ negotiations[i].request.file_name = files[i].name
                    /\ negotiations[i].decoded
                    /\ uploads[i].token = negotiations[i].token
                    /\ (uploads[i].description.some \/ uploads[i].columns.some)
                         => matches # {}
                    /\ matches # {} =>
                         \E k \in matches :
                           /\ uploads[i].description =
                                [some |-> TRUE,
                                 val |-> resources[k].description]
                           /\ uploads[i].columns.some
                                <=> resources[k].schema # "none"
                           /\ uploads[i].columns.some =>
                                uploads[i].columns.val = resources[k].schema
  /\ ( /\ uf_pc = "done"
       /\ \A i \in 1..Len(negotiations) : negotiations[i].decoded
       /\ NoLocalFailure ) =>
       uf_result.kind = "Ok"

\* a folder with a regular file and a sub-directory that holds a file was
\* uploaded: one entry, with a description from its resource
C10_Witness ==
  /\ uf_pc = "done"
  /\ uf_result.kind = "Ok"
  /\ Len(uploads) = 1
  /\ uploads[1].description.some
  /\ uploads[1].token = Tok2
  /\ \E i \in 1..Len(folder) :
       folder[i].kind = "dir" /\ folder[i].nested # <<>>

(***************************************************************************)
(* Properties of the file metadata sent in the negotiation paths           *)
(* (specification SpecSubmit).                                             *)
(***************************************************************************)
\* C14 (as claimed): the last-modified value of the negotiation paths is
\* the modification time of the file in seconds since the epoch, whatever
\* the clock reads, and content_length is the size of the file: a file
\* modified at m is announced with m, in the URL negotiation and in the
\* upload-by-guid path.
C14_LastModifiedIsMtime ==
  \A i \in SentTo(UrlEndpoint) \cup SentTo(UploadEndpoint) :
    /\ sent[i].last_modified_secs = file.mtime
    /\ sent[i].content_length = file.len

\* C15 (as claimed): a call on a path that does not exist ends with the
\* FileNotFound variant of KaggleError and no negotiation request was sent;
\* a negotiation that failed ends the call with the error request_json gave
\* and nothing after the negotiation is sent.
C15_FileNotFound ==
  /\ (pc = "done" /\ ~file.exists) =>
       /\ result.kind = "Err"
       /\ result.err.type = "KaggleError"
       /\ result.err.variant = "FileNotFound"
       /\ sent = <<>>
  /\ (pc = "done" /\ Len(replies) = 1 /\ ~replies[1].decoded) =>
       /\ result.kind \in {"Err", "Panic"}
       /\ Len(sent) = 1

DifferentDefaultDownloads ==
  /\ dl_ops[1].pc \notin {"idle", "start"}
  /\ dl_ops[2].pc \notin {"idle", "start"}
  /\ ~dl_ops[1].call.target.some
  /\ ~dl_ops[2].call.target.some
  /\ dl_ops[1].call # dl_ops[2].call

\* C13 (as claimed): two download operations without an explicit target
\* whose request parameters differ write to different target paths.
C13_DistinctTargets ==
  DifferentDefaultDownloads => dl_ops[1].output # dl_ops[2].output

\* C17 (as claimed): a download operation that received a response whose
\* status is not 2xx ends with an error, never with Ok(path).
C17_DownloadNon2xxIsError ==
  \A p \in Ops :
    (dl_ops[p].pc = "done" /\ dl_ops[p].status # 0
       /\ ~is_success(dl_ops[p].status)) =>
      dl_ops[p].result.kind = "Err"

(***************************************************************************)
(* Properties of into_bytes_stream (specification SpecStream).             *)
(***************************************************************************)
\* the bytes of the Ok items among the first n items, in emission order
RECURSIVE Concatenated(_, _)
Concatenated(items, n) ==
  IF n = 0 THEN <<>>
  ELSE Concatenated(items, n - 1)
         \o (IF items[n].ok THEN items[n].bytes ELSE <<>>)

\* C12: the chunks the stream emits, concatenated in emission order, are at
\* every moment the bytes the reader has given out, and once the stream has
\* ended they are exactly the N bytes of the file, whatever N and whatever
\* the sizes of the reads.  A failed read is emitted as an error item, the
\* last item the consumer sees, and the stream does not end as if the file
\* were shorter: it ends only when no read failed.
C12_ChunksReproduceFile ==
  /\ Concatenated(st_items, Len(st_items)) = SubSeq(st_file, 1, st_pos)
  /\ st_pc = "ended" =>
       /\ Concatenated(st_items, Len(st_items)) = st_file
       /\ \A i \in 1..Len(st_items) : st_items[i].ok
       /\ ~st_failed
  /\ st_failed =>
       /\ st_pc = "failed"
       /\ st_items # <<>>
       /\ ~st_items[Len(st_items)].ok

\* a file of three bytes was streamed to its end in more than one chunk
C12_Witness ==
  /\ st_pc = "ended"
  /\ Len(st_file) = 3
  /\ Len(st_items) >= 2

(***************************************************************************)
(* Properties of competitions_list (specification SpecList).               *)
(***************************************************************************)
\* the names of the parameters of a query text, in their order
ParameterNames(text) ==
  LET pieces == split(text, "&")
  IN  [i \in 1..Len(pieces) |-> Head(pieces[i])]

\* C16: the request competitions_list builds for a query with the default
\* filter values has the URL join_url("competitions/list") followed by the
\* query group=&category=&sortBy=&page=1&search= ; and whatever the filter
\* values, the query names the five parameters group, category, sortBy,
\* page, search in that order.
C16_DefaultQuery ==
  cl_pc \in {"awaiting", "done"} =>
    /\ cl_req.url.query.some
    /\ ParameterNames(cl_req.url.query.val) =
         <<"group", "category", "sortBy", "page", "search">>
    /\ cl_query = CompetitionsList_default =>
         cl_req.url =
           [join_url(base_url, <<"competitions", "/", "list">>) EXCEPT
              !.query = Some(<<"group", "=", "&", "category", "=", "&",
                               "sortBy", "=", "&", "page", "=", "1", "&",
                               "search", "=">>)]

\* the listing was requested with the default query and came back
C16_Witness ==
  /\ cl_pc = "done"
  /\ cl_query = CompetitionsList_default
  /\ cl_result.kind = "Ok"

====
